---- MODULE Spec2Model ----
(***************************************************************************)
(* A model of the filesize tool (package main, the version with -html):    *)
(* main's pipeline buildFileTree -> sortFileTree -> printFileTree or       *)
(* generateHTML, and the script embedded in the generated page.            *)
(*                                                                         *)
(* Strings are TLA+ strings.  The box-drawing glyphs of the console tree   *)
(* are written in ASCII, each with the width of the original:              *)
(*     "+-- " for U+2514 U+2500 U+2500 SPACE   (last sibling)              *)
(*     "|-- " for U+251C U+2500 U+2500 SPACE   (other siblings)            *)
(*     "|   " for U+2502 and three spaces      (continuation)              *)
(***************************************************************************)
EXTENDS Integers, Sequences, FiniteSets, TLC

VARIABLES
    fs,          \* the file system under the target directory (input)
    sortBy,      \* flag -sort
    reverse,     \* flag -reverse
    htmlOutput,  \* flag -html ("" when not given)
    pc,          \* main's position
    sortType,    \* SortByName / SortBySize, set by main's switch
    root,        \* the *FileInfo tree (NilNode before the build)
    stdout,      \* lines printed to standard output
    stderr,      \* lines printed to standard error
    exitCode,    \* the process's exit code (-1 while running)
    htmlFile,    \* the output file: absent, cut short, or the complete page
    page,        \* the page in a browser: its controls and the tree it shows
    fin,         \* formatSize: the argument (SpecFormat)
    fout         \* formatSize: the result (SpecFormat)

vars == <<fs, sortBy, reverse, htmlOutput, pc, sortType, root, stdout, stderr,
          exitCode, htmlFile, page, fin, fout>>

(***************************************************************************)
(* Bounds of the model.                                                    *)
(***************************************************************************)
\* entries (files and directories) below the target directory, at any depth
MaxEntries == 3
\* a regular file holds 0..MaxSize bytes
MaxSize == 2

(***************************************************************************)
(* Names.  A name is a string; NameBytes gives its bytes, which is what    *)
(* Go's string comparison and strings.ToLower work on.                     *)
(***************************************************************************)
\* the file names of the model, in byte order (the order os.ReadDir returns)
NamePool == <<"B", "a.txt", "~">>

NameBytes(name) ==
    CASE name = "B"     -> <<66>>
      [] name = "a.txt" -> <<97, 46, 116, 120, 116>>
      [] name = "~"     -> <<126>>
      [] name = "r"     -> <<114>>

\* strings.ToLower on ASCII bytes
ToLowerByte(c) == IF c >= 65 /\ c <= 90 THEN c + 32 ELSE c

ToLower(bytes) == [i \in 1..Len(bytes) |-> ToLowerByte(bytes[i])]

\* Go's < on strings: lexicographic on bytes, a proper prefix is smaller
RECURSIVE BytesLess(_, _)
BytesLess(s, t) ==
    IF t = <<>> THEN FALSE
    ELSE IF s = <<>> THEN TRUE
    ELSE IF Head(s) # Head(t) THEN Head(s) < Head(t)
    ELSE BytesLess(Tail(s), Tail(t))

(***************************************************************************)
(* The file system: the input of a run.  An entry is what os.Stat and      *)
(* os.ReadDir say about a path:                                            *)
(*   statErr  "" (Stat succeeds), "ENOENT" (nothing there, or a dangling   *)
(*            link), "EACCES"                                              *)
(*   isDir    info.IsDir()                                                 *)
(*   size     info.Size() of a regular file                                *)
(*   readErr  os.ReadDir fails                                             *)
(*   entries  what os.ReadDir returns, sorted by file name                 *)
(***************************************************************************)
FsFile(name, size) ==
    [name |-> name, statErr |-> "", isDir |-> FALSE, size |-> size,
     readErr |-> FALSE, entries |-> <<>>]

FsBroken(name, err) ==
    [name |-> name, statErr |-> err, isDir |-> FALSE, size |-> 0,
     readErr |-> FALSE, entries |-> <<>>]

FsDir(name, entries) ==
    [name |-> name, statErr |-> "", isDir |-> TRUE, size |-> 0,
     readErr |-> FALSE, entries |-> entries]

FsLockedDir(name) ==
    [name |-> name, statErr |-> "", isDir |-> TRUE, size |-> 0,
     readErr |-> TRUE, entries |-> <<>>]

FsLeaves(name) ==
    {FsFile(name, s) : s \in 0..MaxSize}
        \cup {FsBroken(name, "ENOENT"), FsLockedDir(name), FsDir(name, <<>>)}

\* FsForest(i, n): the directory listings that use names NamePool[i..] and hold
\* exactly n entries counting those of sub-directories
RECURSIVE FsForest(_, _)
FsEntries(name, k) ==
    IF k = 1 THEN FsLeaves(name)
    ELSE {FsDir(name, sub) : sub \in FsForest(1, k - 1)}

FsForest(i, n) ==
    IF n = 0 THEN {<<>>}
    ELSE IF i > Len(NamePool) THEN {}
    ELSE FsForest(i + 1, n)
         \cup UNION {{<<e>> \o rest : e \in FsEntries(NamePool[i], k),
                                      rest \in FsForest(i + 1, n - k)}
                     : k \in 1..n}

\* the target directory argument: missing, not stat-able, a regular file, an
\* unreadable directory, or a directory
FsRoots ==
    {FsBroken("r", "ENOENT"), FsBroken("r", "EACCES"), FsFile("r", MaxSize),
     FsLockedDir("r")}
        \cup UNION {{FsDir("r", l) : l \in FsForest(1, n)} : n \in 0..MaxEntries}

(***************************************************************************)
(* buildFileTree.  A *FileInfo is a record; the nil pointer is NilNode,     *)
(* the record with the empty Path.                                         *)
(***************************************************************************)
NilNode ==
    [Name |-> "", Size |-> 0, IsDir |-> FALSE, Path |-> "", Children |-> <<>>]

IsNil(node) == node.Path = ""

FileInfo(name, path) ==
    [Name |-> name, Size |-> 0, IsDir |-> FALSE, Path |-> path, Children |-> <<>>]

\* filepath.Join(dir, name) for a clean absolute dir
PathJoin(dir, name) == dir \o "/" \o name

\* loopStep with totalSize = child.Size in place of totalSize += child.Size
loopStepAssign(acc, result) ==
    IF result.err # "" THEN acc
    ELSE [children  |-> Append(acc.children, result.node),
          totalSize |-> result.node.Size]

\* one pass of the loop body on a child whose build returned result: skip the
\* child when the build failed, else append it and add its size.  acc is the
\* loop's state, [children, totalSize].
loopStep(acc, result) ==
    IF result.err # "" THEN acc
    ELSE [children  |-> Append(acc.children, result.node),
          totalSize |-> acc.totalSize + result.node.Size]

RECURSIVE buildFileTreeRecursive(_, _)
\* buildLoop with break in place of continue: the first child that fails ends
\* the loop
RECURSIVE buildLoopBreak(_, _, _, _)
buildLoopBreak(dirPath, entries, i, acc) ==
    IF i > Len(entries) THEN acc
    ELSE LET child  == FileInfo(entries[i].name, PathJoin(dirPath, entries[i].name))
             result == buildFileTreeRecursive(child, entries[i])
         IN  IF result.err # "" THEN acc
             ELSE buildLoopBreak(dirPath, entries, i + 1, loopStep(acc, result))

\* the loop over entries[i..]
RECURSIVE buildLoop(_, _, _, _)
buildLoop(dirPath, entries, i, acc) ==
    IF i > Len(entries) THEN acc
    ELSE LET child  == FileInfo(entries[i].name, PathJoin(dirPath, entries[i].name))
             result == buildFileTreeRecursive(child, entries[i])
         IN  buildLoop(dirPath, entries, i + 1, loopStep(acc, result))

\* node: the *FileInfo with Name and Path set; entry: what the file system holds
\* at node.Path.  Returns [err, node].
buildFileTreeRecursive(node, entry) ==
    IF entry.statErr # "" THEN [err |-> entry.statErr, node |-> node]
    ELSE IF entry.isDir
    THEN IF entry.readErr THEN [err |-> "EACCES", node |-> [node EXCEPT !.IsDir = TRUE]]
         ELSE LET acc == buildLoop(node.Path, entry.entries, 1,
                                   [children |-> <<>>, totalSize |-> 0])
              IN  [err |-> "",
                   node |-> [node EXCEPT !.IsDir = TRUE, !.Children = acc.children,
                                         !.Size = acc.totalSize]]
    ELSE [err |-> "", node |-> [node EXCEPT !.Size = entry.size]]

\* rootPath resolves to the absolute path "/r", whose base name is "r"
buildFileTree(rootFs) ==
    LET res == buildFileTreeRecursive(FileInfo("r", "/r"), rootFs)
    IN  IF res.err # "" THEN [err |-> res.err, node |-> NilNode] ELSE res

(***************************************************************************)
(* sortFileTree.  sort.Slice sorts a slice of at most 12 elements by       *)
(* insertion (pdqsort's maxInsertion; the older quickSort does the same    *)
(* below 7 elements), calling the less function of sortFileTree.           *)
(***************************************************************************)
SortByName == 0
SortBySize == 1

\* less comparing the names as they are, without strings.ToLower
lessCaseSensitive(a, b, st, rev) ==
    IF st = SortBySize
    THEN LET result == a.Size > b.Size
         IN  IF rev THEN ~result ELSE result
    ELSE IF a.IsDir # b.IsDir THEN a.IsDir
    ELSE LET result == BytesLess(NameBytes(a.Name), NameBytes(b.Name))
         IN  IF rev THEN ~result ELSE result

\* less with directories first under both sort keys
lessDirsFirstAlways(a, b, st, rev) ==
    IF a.IsDir # b.IsDir THEN a.IsDir
    ELSE LET result == IF st = SortBySize THEN a.Size > b.Size
                       ELSE BytesLess(ToLower(NameBytes(a.Name)),
                                      ToLower(NameBytes(b.Name)))
         IN  IF rev THEN ~result ELSE result

\* less with the reverse flag applied to the directories-first result too
lessReverseAll(a, b, st, rev) ==
    LET result == IF st = SortBySize THEN a.Size > b.Size
                  ELSE IF a.IsDir # b.IsDir THEN a.IsDir
                  ELSE BytesLess(ToLower(NameBytes(a.Name)),
                                 ToLower(NameBytes(b.Name)))
    IN  IF rev THEN ~result ELSE result

\* less without the directories-first rule
lessNoDirsFirst(a, b, st, rev) ==
    LET result == IF st = SortBySize THEN a.Size > b.Size
                  ELSE BytesLess(ToLower(NameBytes(a.Name)),
                                 ToLower(NameBytes(b.Name)))
    IN  IF rev THEN ~result ELSE result

\* the func(i, j int) bool passed to sort.Slice, on a = Children[i], b = Children[j]
less(a, b, st, rev) ==
    IF st = SortBySize
    THEN LET result == a.Size > b.Size
         IN  IF rev THEN ~result ELSE result
    ELSE IF a.IsDir # b.IsDir THEN a.IsDir
    ELSE LET result == BytesLess(ToLower(NameBytes(a.Name)), ToLower(NameBytes(b.Name)))
         IN  IF rev THEN ~result ELSE result

\* Swap writing data[j] to place i and leaving place j as it is
SwapOverwrite(data, i, j) == [data EXCEPT ![i] = data[j]]

Swap(data, i, j) == [data EXCEPT ![i] = data[j], ![j] = data[i]]

\* for j := i; j > a && less(j, j-1); j-- { swap(j, j-1) }
RECURSIVE sinkDown(_, _, _, _)
sinkDown(data, j, st, rev) ==
    IF j > 1 /\ less(data[j], data[j - 1], st, rev)
    THEN sinkDown(Swap(data, j, j - 1), j - 1, st, rev)
    ELSE data

\* for i := a + 1; i < b; i++ { ... }
RECURSIVE insertionSort(_, _, _, _)
insertionSort(data, i, st, rev) ==
    IF i > Len(data) THEN data
    ELSE insertionSort(sinkDown(data, i, st, rev), i + 1, st, rev)

sortSlice(data, st, rev) == insertionSort(data, 2, st, rev)

RECURSIVE sortFileTree(_, _, _)
sortFileTree(node, st, rev) ==
    IF IsNil(node) THEN node
    ELSE IF Len(node.Children) = 0 THEN node
    ELSE LET kids == [i \in 1..Len(node.Children) |->
                        IF node.Children[i].IsDir
                        THEN sortFileTree(node.Children[i], st, rev)
                        ELSE node.Children[i]]
         IN  [node EXCEPT !.Children = sortSlice(kids, st, rev)]

(***************************************************************************)
(* formatSize.  An int64 size >= 0 is written in base 1024, least          *)
(* significant limb first: <<d0, d1, d2, d3, d4>> stands for               *)
(* d0 + d1*1024 + d2*1024^2 + d3*1024^3 + d4*1024^4, with d0..d3 < 1024    *)
(* and d4 < 2^23.  The unit constants B, KB, MB, GB, TB are 1024^0..4.     *)
(***************************************************************************)
Limb == 1024

FromInt(n) ==
    <<n % Limb, (n \div Limb) % Limb, (n \div (Limb * Limb)) % Limb,
      n \div (Limb * Limb * Limb), 0>>

Digit(d) == <<"0", "1", "2", "3", "4", "5", "6", "7", "8", "9">>[d + 1]

\* %d of a non-negative integer
RECURSIVE DecStr(_)
DecStr(n) == IF n < 10 THEN Digit(n) ELSE DecStr(n \div 10) \o Digit(n % 10)

RECURSIVE Pow2(_)
Pow2(n) == IF n = 0 THEN 1 ELSE 2 * Pow2(n - 1)

RECURSIVE BitLen(_)
BitLen(n) == IF n = 0 THEN 0 ELSE 1 + BitLen(n \div 2)

\* limbs with d0 replaced by v (which may be 1024: the carry runs up; the top
\* limb takes what is left)
RECURSIVE Carry(_, _, _)
Carry(limbs, i, c) ==
    IF c = 0 THEN limbs
    ELSE IF i = Len(limbs) THEN [limbs EXCEPT ![i] = limbs[i] + c]
    ELSE LET v == limbs[i] + c
         IN  Carry([limbs EXCEPT ![i] = v % Limb], i + 1, v \div Limb)

\* float64(size): exact below 2^53 (d4 < 2^13); above, the 53 leading bits are
\* kept and the s = BitLen(d4) - 13 low bits of d0 rounded off, to nearest, ties
\* to the even mantissa.  The result is an integer, written as limbs again.
ToFloat64(size) ==
    IF size[5] < 8192 THEN size
    ELSE LET s    == BitLen(size[5]) - 13
             r    == size[1] % Pow2(s)
             half == Pow2(s - 1)
             odd  == IF s < 10 THEN (size[1] \div Pow2(s)) % 2 = 1
                     ELSE size[2] % 2 = 1
             down == [size EXCEPT ![1] = size[1] - r]
         IN  IF r > half \/ (r = half /\ odd)
             THEN Carry(down, 1, Pow2(s))
             ELSE down

\* the limbs of 100 * (limbs[1..k] read as a number): k + 1 limbs
RECURSIVE Times100(_, _, _, _)
Times100(limbs, i, k, c) ==
    IF i > k THEN <<c>>
    ELSE LET v == 100 * limbs[i] + c
         IN  <<v % Limb>> \o Times100(limbs, i + 1, k, v \div Limb)

AllZero(limbs, n) == \A i \in 1..n : limbs[i] = 0

\* Hundredths cutting the digits after the second off instead of rounding
HundredthsTruncated(f, k) == 100 * f[k + 1] + Times100(f, 1, k, 0)[k + 1]

\* the value f / 1024^k in hundredths, rounded as strconv rounds a decimal
\* expansion: to nearest, an exact tie to the even digit
Hundredths(f, k) ==
    LET whole == f[k + 1]
        p     == Times100(f, 1, k, 0)
        q     == p[k + 1]
        up    == \/ p[k] > 512
                 \/ p[k] = 512 /\ ~AllZero(p, k - 1)
                 \/ p[k] = 512 /\ AllZero(p, k - 1) /\ q % 2 = 1
    IN  100 * whole + q + (IF up THEN 1 ELSE 0)

\* fmt.Sprintf("%.2f <unit>", v) for v = h / 100
Sprintf2f(h, unit) ==
    DecStr(h \div 100) \o "." \o Digit((h \div 10) % 10) \o Digit(h % 10) \o " " \o unit

formatSize(size) ==
    IF size[5] >= 1 THEN Sprintf2f(Hundredths(ToFloat64(size), 4), "TB")
    ELSE IF size[4] >= 1 THEN Sprintf2f(Hundredths(ToFloat64(size), 3), "GB")
    ELSE IF size[3] >= 1 THEN Sprintf2f(Hundredths(ToFloat64(size), 2), "MB")
    ELSE IF size[2] >= 1 THEN Sprintf2f(Hundredths(ToFloat64(size), 1), "KB")
    ELSE DecStr(size[1]) \o " B"

(***************************************************************************)
(* printFileTree: the lines it prints, in order.                           *)
(***************************************************************************)
connector(prefix, isLast) ==
    IF prefix = "" THEN "" ELSE IF isLast THEN "+-- " ELSE "|-- "

\* newPrefix leaving the prefix of the root's children empty
newPrefixEmptyAtRoot(prefix, isLast) ==
    IF prefix = "" THEN ""
    ELSE IF isLast THEN prefix \o "    "
    ELSE prefix \o "|   "

newPrefix(prefix, isLast) ==
    IF prefix = "" THEN (IF isLast THEN "    " ELSE "|   ")
    ELSE IF isLast THEN prefix \o "    "
    ELSE prefix \o "|   "

\* the two Printf formats
printLine(node, prefix, isLast) ==
    LET sizeStr == formatSize(FromInt(node.Size))
    IN  IF node.IsDir
        THEN prefix \o connector(prefix, isLast) \o node.Name \o "/ (" \o sizeStr \o ")"
        ELSE prefix \o connector(prefix, isLast) \o node.Name \o " (" \o sizeStr \o ")"

RECURSIVE printFileTree(_, _, _)
RECURSIVE printChildren(_, _, _)
\* printFileTree printing the node's line after the lines of its children
printFileTreePostOrder(node, prefix, isLast) ==
    IF IsNil(node) THEN <<>>
    ELSE (IF Len(node.Children) > 0
          THEN printChildren(node.Children, 1, newPrefix(prefix, isLast))
          ELSE <<>>)
             \o <<printLine(node, prefix, isLast)>>

\* for i, child := range node.Children, from index i on
printChildren(children, i, prefix) ==
    IF i > Len(children) THEN <<>>
    ELSE printFileTree(children[i], prefix, i = Len(children))
             \o printChildren(children, i + 1, prefix)

printFileTree(node, prefix, isLast) ==
    IF IsNil(node) THEN <<>>
    ELSE <<printLine(node, prefix, isLast)>>
             \o (IF Len(node.Children) > 0
                 THEN printChildren(node.Children, 1, newPrefix(prefix, isLast))
                 ELSE <<>>)

(***************************************************************************)
(* convertToJSON and the page.  A JSONFileInfo is a record; a nil Children *)
(* slice is marshalled as null, written <<>> here (the code never          *)
(* marshals an empty non-nil slice).                                       *)
(***************************************************************************)
NilJSON ==
    [name |-> "", size |-> 0, sizeStr |-> "", isDir |-> FALSE, path |-> "",
     children |-> <<>>]

RECURSIVE convertToJSON(_)
\* convertToJSON filling jsonNode.Children from the last child to the first
convertToJSONReversed(node) ==
    IF IsNil(node) THEN NilJSON
    ELSE [name     |-> node.Name,
          size     |-> node.Size,
          sizeStr  |-> formatSize(FromInt(node.Size)),
          isDir    |-> node.IsDir,
          path     |-> node.Path,
          children |-> [i \in 1..Len(node.Children) |->
                          convertToJSON(node.Children[Len(node.Children) + 1 - i])]]

convertToJSON(node) ==
    IF IsNil(node) THEN NilJSON
    ELSE [name     |-> node.Name,
          size     |-> node.Size,
          sizeStr  |-> formatSize(FromInt(node.Size)),
          isDir    |-> node.IsDir,
          path     |-> node.Path,
          children |-> [i \in 1..Len(node.Children) |->
                          convertToJSON(node.Children[i])]]

\* the output file of generateHTML
NoFile == [state |-> "none", treeData |-> NilJSON]

(***************************************************************************)
(* The script of the page.                                                 *)
(***************************************************************************)
\* String.prototype.localeCompare compares by the collation of the locale, not
\* by code unit: in the root collation punctuation and symbols sort before
\* digits, and digits before letters.  Weight gives the rank of an ASCII
\* character of the model's names.
Weight(c) ==
    IF c >= 97 /\ c <= 122 THEN 2000 + c
    ELSE IF c >= 48 /\ c <= 57 THEN 1000 + c
    ELSE c

RECURSIVE localeCompare(_, _)
localeCompare(s, t) ==
    IF s = <<>> /\ t = <<>> THEN 0
    ELSE IF s = <<>> THEN -1
    ELSE IF t = <<>> THEN 1
    ELSE IF Weight(Head(s)) # Weight(Head(t))
    THEN (IF Weight(Head(s)) < Weight(Head(t)) THEN -1 ELSE 1)
    ELSE localeCompare(Tail(s), Tail(t))

\* the comparator given to node.children.sort
compareFn(a, b, key, ascending) ==
    IF key = "size"
    THEN LET result == b.size - a.size
         IN  IF ascending THEN result ELSE -result
    ELSE IF a.isDir # b.isDir THEN (IF a.isDir THEN -1 ELSE 1)
    ELSE LET result == localeCompare(ToLower(NameBytes(a.name)),
                                     ToLower(NameBytes(b.name)))
         IN  IF ascending THEN result ELSE -result

\* Array.prototype.sort is stable: an element moves left past those that
\* compare greater
RECURSIVE jsSink(_, _, _, _)
jsSink(data, j, key, ascending) ==
    IF j > 1 /\ compareFn(data[j - 1], data[j], key, ascending) > 0
    THEN jsSink(Swap(data, j, j - 1), j - 1, key, ascending)
    ELSE data

RECURSIVE jsSort(_, _, _, _)
jsSort(data, i, key, ascending) ==
    IF i > Len(data) THEN data
    ELSE jsSort(jsSink(data, i, key, ascending), i + 1, key, ascending)

RECURSIVE sortRecursive(_, _, _)
sortRecursive(node, key, ascending) ==
    IF node.children = <<>> THEN node
    ELSE LET kids == [i \in 1..Len(node.children) |->
                        sortRecursive(node.children[i], key, ascending)]
         IN  [node EXCEPT !.children = jsSort(kids, 2, key, ascending)]

\* the deep copy is the value itself
sortTreeData(data, key, ascending) ==
    IF data = NilJSON \/ data.children = <<>> THEN data
    ELSE sortRecursive(data, key, ascending)

NoPage == [loaded |-> FALSE, sortBy |-> "name", sortOrder |-> "asc", shown |-> NilJSON]

\* applySorting with the controls at sb and so: the tree it renders
applySorting(treeData, sb, so) ==
    [loaded |-> TRUE, sortBy |-> sb, sortOrder |-> so,
     shown |-> sortTreeData(treeData, sb, so = "asc")]

(***************************************************************************)
(* main                                                                    *)
(***************************************************************************)
\* strings.ToLower(*sortBy) for the flag values of the model
LowerFlag(s) == IF s = "Size" THEN "size" ELSE s

Init ==
    /\ fs \in FsRoots
    /\ sortBy \in {"name", "Size", "date"}
    /\ reverse \in BOOLEAN
    /\ htmlOutput \in {"", "out.html"}
    /\ pc = "start"
    /\ sortType = SortByName
    /\ root = NilNode
    /\ stdout = <<>>
    /\ stderr = <<>>
    /\ exitCode = -1
    /\ htmlFile = NoFile
    /\ page = NoPage
    /\ fin = <<>>
    /\ fout = ""

Exit(code, errLine) ==
    /\ pc' = "exit"
    /\ exitCode' = code
    /\ stderr' = IF errLine = "" THEN stderr ELSE Append(stderr, errLine)

\* main: os.Stat(targetDir), os.IsNotExist(err)
CheckExists ==
    /\ pc = "start"
    /\ IF fs.statErr = "ENOENT"
       THEN Exit(1, "Error: Directory does not exist")
       ELSE pc' = "parse" /\ UNCHANGED <<exitCode, stderr>>
    /\ UNCHANGED <<fs, sortBy, reverse, htmlOutput, sortType, root, stdout,
                   htmlFile, page, fin, fout>>

\* main: the switch on strings.ToLower(*sortBy)
ParseSort ==
    /\ pc = "parse"
    /\ IF LowerFlag(sortBy) = "size"
       THEN sortType' = SortBySize /\ pc' = "build" /\ UNCHANGED <<exitCode, stderr>>
       ELSE IF LowerFlag(sortBy) = "name"
       THEN sortType' = SortByName /\ pc' = "build" /\ UNCHANGED <<exitCode, stderr>>
       ELSE Exit(1, "Error: Invalid sort method") /\ UNCHANGED sortType
    /\ UNCHANGED <<fs, sortBy, reverse, htmlOutput, root, stdout, htmlFile, page,
                   fin, fout>>

\* main: root, err := buildFileTree(targetDir)
BuildFileTree ==
    /\ pc = "build"
    /\ LET res == buildFileTree(fs)
       IN  IF res.err # ""
           THEN Exit(1, "Error building file tree") /\ UNCHANGED root
           ELSE root' = res.node /\ pc' = "sort" /\ UNCHANGED <<exitCode, stderr>>
    /\ UNCHANGED <<fs, sortBy, reverse, htmlOutput, sortType, stdout, htmlFile,
                   page, fin, fout>>

\* main: sortFileTree(root, sortType, *reverse)
SortFileTree ==
    /\ pc = "sort"
    /\ root' = sortFileTree(root, sortType, reverse)
    /\ pc' = "output"
    /\ UNCHANGED <<fs, sortBy, reverse, htmlOutput, sortType, stdout, stderr,
                   exitCode, htmlFile, page, fin, fout>>

\* main: printFileTree(root, "", true), and main returns
PrintFileTree ==
    /\ pc = "output"
    /\ htmlOutput = ""
    /\ stdout' = stdout \o printFileTree(root, "", TRUE)
    /\ pc' = "exit"
    /\ exitCode' = 0
    /\ UNCHANGED <<fs, sortBy, reverse, htmlOutput, sortType, root, stderr,
                   htmlFile, page, fin, fout>>

\* main: generateHTML(root, targetDir, *htmlOutput).  os.Create succeeds or not;
\* fmt.Fprintf writes the whole page or fails part-way (its result is dropped).
GenerateHTML ==
    /\ pc = "output"
    /\ htmlOutput # ""
    /\ \E created \in BOOLEAN, written \in BOOLEAN :
          IF ~created
          THEN /\ Exit(1, "Error generating HTML")
               /\ UNCHANGED <<htmlFile, stdout>>
          ELSE /\ htmlFile' = IF written
                              THEN [state |-> "complete", treeData |-> convertToJSON(root)]
                              ELSE [state |-> "partial", treeData |-> NilJSON]
               /\ stdout' = Append(stdout, "HTML output saved to: " \o htmlOutput)
               /\ pc' = "exit"
               /\ exitCode' = 0
               /\ UNCHANGED stderr
    /\ UNCHANGED <<fs, sortBy, reverse, htmlOutput, sortType, root, page, fin, fout>>

\* the page is opened: DOMContentLoaded calls applySorting with the controls at
\* their first options
PageLoad ==
    /\ htmlFile.state = "complete"
    /\ ~page.loaded
    /\ page' = applySorting(htmlFile.treeData, "name", "asc")
    /\ UNCHANGED <<fs, sortBy, reverse, htmlOutput, pc, sortType, root, stdout,
                   stderr, exitCode, htmlFile, fin, fout>>

\* the user sets the two selects and presses Apply Sort
ApplySorting ==
    /\ page.loaded
    /\ \E sb \in {"name", "size"}, so \in {"asc", "desc"} :
          page' = applySorting(htmlFile.treeData, sb, so)
    /\ UNCHANGED <<fs, sortBy, reverse, htmlOutput, pc, sortType, root, stdout,
                   stderr, exitCode, htmlFile, fin, fout>>

Next ==
    \/ CheckExists
    \/ ParseSort
    \/ BuildFileTree
    \/ SortFileTree
    \/ PrintFileTree
    \/ GenerateHTML
    \/ PageLoad
    \/ ApplySorting

\* every run of the tool, and the generated page in a browser
Spec == Init /\ [][Next]_vars

\* the runs without -html
InitConsole == Init /\ htmlOutput = ""

NextConsole ==
    \/ CheckExists
    \/ ParseSort
    \/ BuildFileTree
    \/ SortFileTree
    \/ PrintFileTree

SpecConsole == InitConsole /\ [][NextConsole]_vars

(***************************************************************************)
(* formatSize on its own: the argument is drawn from SizeInputs.           *)
(***************************************************************************)
\* limbs that make the hundredths exact, tied (128, 384: .125, .375) or close
\* to the next unit
LimbInputs == {0, 1, 128, 384, 512, 1023}

\* top limbs: below and from 2^53 bytes (8192 TB) on, up to the largest int64
TopInputs == {0, 1, 8191, 8192, 8388607}

SizeInputs ==
    {<<d0, d1, d2, d3, d4>> : d0 \in LimbInputs, d1 \in LimbInputs,
                              d2 \in LimbInputs, d3 \in LimbInputs,
                              d4 \in TopInputs}
        \cup {<<369, 655, 368, 15, 8192>>}

InitFormat ==
    /\ fin \in SizeInputs
    /\ fout = ""
    /\ pc = "format"
    /\ fs = FsFile("r", 0)
    /\ sortBy = "name"
    /\ reverse = FALSE
    /\ htmlOutput = ""
    /\ sortType = SortByName
    /\ root = NilNode
    /\ stdout = <<>>
    /\ stderr = <<>>
    /\ exitCode = -1
    /\ htmlFile = NoFile
    /\ page = NoPage

FormatSize ==
    /\ pc = "format"
    /\ fout' = formatSize(fin)
    /\ pc' = "formatted"
    /\ UNCHANGED <<fs, sortBy, reverse, htmlOutput, sortType, root, stdout, stderr,
                   exitCode, htmlFile, page, fin>>

NextFormat == FormatSize

SpecFormat == InitFormat /\ [][NextFormat]_vars

(***************************************************************************)
(* The output stage on its own: main from line 97 on, with root drawn from *)
(* the trees that buildFileTree and sortFileTree produce.  The file system *)
(* and the sort flags are not read any more; they are left at fixed        *)
(* values.  main runs to its end once started, hence the fairness.         *)
(***************************************************************************)
SortedTrees(roots) ==
    {sortFileTree(buildFileTree(f).node, st, rev) :
        f \in {g \in roots : buildFileTree(g).err = ""},
        st \in {SortByName, SortBySize}, rev \in BOOLEAN}

InitOutput ==
    /\ root \in SortedTrees(FsRoots)
    /\ htmlOutput \in {"", "out.html"}
    /\ pc = "output"
    /\ fs = FsFile("r", 0)
    /\ sortBy = "name"
    /\ reverse = FALSE
    /\ sortType = SortByName
    /\ stdout = <<>>
    /\ stderr = <<>>
    /\ exitCode = -1
    /\ htmlFile = NoFile
    /\ page = NoPage
    /\ fin = <<>>
    /\ fout = ""

NextOutput ==
    \/ PrintFileTree
    \/ GenerateHTML

SpecOutput == InitOutput /\ [][NextOutput]_vars /\ WF_vars(NextOutput)

(***************************************************************************)
(* Properties.                                                             *)
(***************************************************************************)
\* the entry of a listing with the given name (the names of a listing differ)
EntryNamed(entries, name) ==
    entries[CHOOSE i \in 1..Len(entries) : entries[i].name = name]

HasEntry(entries, name) == \E i \in 1..Len(entries) : entries[i].name = name

RECURSIVE SumOfSizes(_)
SumOfSizes(nodes) ==
    IF nodes = <<>> THEN 0 ELSE Head(nodes).Size + SumOfSizes(Tail(nodes))

\* node is the tree built for entry: sizes of directories are sums, sizes of
\* files are the lengths the file system reports
RECURSIVE SizesAgree(_, _)
SizesAgree(node, entry) ==
    IF node.IsDir
    THEN /\ entry.isDir
         /\ node.Size = SumOfSizes(node.Children)
         /\ \A i \in 1..Len(node.Children) :
               /\ HasEntry(entry.entries, node.Children[i].Name)
               /\ SizesAgree(node.Children[i],
                             EntryNamed(entry.entries, node.Children[i].Name))
    ELSE /\ ~entry.isDir
         /\ node.Children = <<>>
         /\ node.Size = entry.size

\* C1: in the tree a successful buildFileTree returns, every directory's size
\* is the sum of its children's sizes (0 without children) and every file's
\* size is its stat'ed length.
C1_SizesAreSums == pc = "sort" => SizesAgree(root, fs)

\* a built tree with a directory, below the root, of two files of 1 and 2 bytes
C1_Witness ==
    /\ pc = "sort"
    /\ \E i \in 1..Len(root.Children) :
          /\ root.Children[i].IsDir
          /\ Len(root.Children[i].Children) = 2
          /\ root.Children[i].Children[1].Size = 1
          /\ root.Children[i].Children[2].Size = 2
          /\ root.Children[i].Size = 3

\* Stat and, for a directory, ReadDir succeed on the entry
Readable(entry) == entry.statErr = "" /\ (entry.isDir => ~entry.readErr)

\* the bytes of the regular files reachable from entry through readable entries
RECURSIVE SurvivingBytes(_)
SurvivingBytesOfList(entries) ==
    LET bytes == [i \in 1..Len(entries) |-> SurvivingBytes(entries[i])]
        RECURSIVE Sum(_)
        Sum(k) == IF k = 0 THEN 0 ELSE bytes[k] + Sum(k - 1)
    IN  Sum(Len(entries))

SurvivingBytes(entry) ==
    IF ~Readable(entry) THEN 0
    ELSE IF entry.isDir THEN SurvivingBytesOfList(entry.entries)
    ELSE entry.size

\* node's children are exactly the readable entries of the listing, in the
\* listing's order, and so on below
RECURSIVE KeepsReadable(_, _)
KeepsReadable(node, entry) ==
    LET kept == SelectSeq(entry.entries, Readable)
    IN  /\ Len(node.Children) = Len(kept)
        /\ \A i \in 1..Len(kept) :
              /\ node.Children[i].Name = kept[i].name
              /\ node.Children[i].IsDir = kept[i].isDir
              /\ KeepsReadable(node.Children[i], kept[i])

\* C2: an entry below the root whose Stat or ReadDir fails is left out of its
\* parent's children and of every ancestor's size, its readable siblings are
\* all built, and the build fails only when the root itself cannot be read.
C2_FailedEntriesSkipped ==
    /\ pc = "sort" =>
          /\ KeepsReadable(root, fs)
          /\ root.Size = SurvivingBytes(fs)
    /\ Readable(fs) /\ pc = "exit" => stderr # <<"Error building file tree">>

\* a built tree whose listing had a failing entry followed by a file with bytes
C2_Witness ==
    /\ pc = "sort"
    /\ \E i \in 1..Len(fs.entries) :
          /\ ~Readable(fs.entries[i])
          /\ i < Len(fs.entries)
          /\ Readable(fs.entries[i + 1])
          /\ fs.entries[i + 1].size > 0
    /\ Len(root.Children) = Len(fs.entries) - 1
    /\ root.Size > 0

\* the tree as buildFileTree returned it, before sortFileTree
Built == buildFileTree(fs).node

LowerName(node) == ToLower(NameBytes(node.Name))

\* no file comes before a directory
DirsFirst(children) ==
    \A i \in 1..Len(children), j \in 1..Len(children) :
        i < j /\ children[j].IsDir => children[i].IsDir

\* no directory comes before a file
FilesFirst(children) ==
    \A i \in 1..Len(children), j \in 1..Len(children) :
        i < j /\ children[i].IsDir => children[j].IsDir

\* among the directories, and among the files, lower-cased names ascend
NamesAscend(children) ==
    \A i \in 1..Len(children), j \in 1..Len(children) :
        i < j /\ children[i].IsDir = children[j].IsDir
            => ~BytesLess(LowerName(children[j]), LowerName(children[i]))

NamesDescend(children) ==
    \A i \in 1..Len(children), j \in 1..Len(children) :
        i < j /\ children[i].IsDir = children[j].IsDir
            => ~BytesLess(LowerName(children[i]), LowerName(children[j]))

SizesDescend(children) ==
    \A i \in 1..Len(children), j \in 1..Len(children) :
        i < j => children[i].Size >= children[j].Size

SizesAscend(children) ==
    \A i \in 1..Len(children), j \in 1..Len(children) :
        i < j => children[i].Size <= children[j].Size

RECURSIVE EveryDirNameSorted(_)
EveryDirNameSorted(node) ==
    /\ DirsFirst(node.Children)
    /\ NamesAscend(node.Children)
    /\ \A i \in 1..Len(node.Children) : EveryDirNameSorted(node.Children[i])

\* C3: after sortFileTree by name without reverse, in every directory the
\* directories precede the files, and within each kind the lower-cased names
\* ascend.
C3_NameSortDirsFirstAscending ==
    pc = "output" /\ sortType = SortByName /\ ~reverse => EveryDirNameSorted(root)

\* B, a.txt and ~/ listed in this order come out as ~/, a.txt, B
C3_Witness ==
    /\ pc = "output" /\ sortType = SortByName /\ ~reverse
    /\ Len(Built.Children) = 3
    /\ ~Built.Children[1].IsDir /\ ~Built.Children[2].IsDir /\ Built.Children[3].IsDir
    /\ root.Children = <<Built.Children[3], Built.Children[2], Built.Children[1]>>

RECURSIVE EveryDirSizeSorted(_, _)
EveryDirSizeSorted(node, rev) ==
    /\ IF rev THEN SizesAscend(node.Children) ELSE SizesDescend(node.Children)
    /\ \A i \in 1..Len(node.Children) : EveryDirSizeSorted(node.Children[i], rev)

\* C4: after sortFileTree by size, in every directory the children are in
\* non-increasing order of size, non-decreasing with reverse, whatever their
\* kind.
C4_SizeSortBySizeOnly ==
    pc = "output" /\ sortType = SortBySize => EveryDirSizeSorted(root, reverse)

\* three children of sizes 1, 0, 2 as listed, the directory the smallest, come
\* out with reverse as 0, 1, 2: the directory, then the files
C4_Witness ==
    /\ pc = "output" /\ sortType = SortBySize /\ reverse
    /\ Len(Built.Children) = 3
    /\ Built.Children[1].Size = 1 /\ Built.Children[2].Size = 0
    /\ Built.Children[3].Size = 2
    /\ Built.Children[2].IsDir /\ ~Built.Children[1].IsDir
    /\ root.Children = <<Built.Children[2], Built.Children[1], Built.Children[3]>>

Reversed(seq) == [i \in 1..Len(seq) |-> seq[Len(seq) + 1 - i]]

IsDirNode(node) == node.IsDir
IsFileNode(node) == ~node.IsDir

Names(nodes) == [i \in 1..Len(nodes) |-> nodes[i].Name]

ChildNamed(children, name) ==
    children[CHOOSE i \in 1..Len(children) : children[i].Name = name]

\* in every directory the lower-cased names of the children differ
RECURSIVE DistinctLowerNames(_)
DistinctLowerNames(node) ==
    /\ \A i \in 1..Len(node.Children), j \in 1..Len(node.Children) :
          i # j => LowerName(node.Children[i]) # LowerName(node.Children[j])
    /\ \A i \in 1..Len(node.Children) : DistinctLowerNames(node.Children[i])

\* forward is the same directory sorted by name without reverse
RECURSIVE ReversedEveryDir(_, _)
ReversedEveryDir(node, forward) ==
    /\ FilesFirst(node.Children)
    /\ Names(node.Children) = Reversed(Names(forward.Children))
    /\ \A i \in 1..Len(node.Children) :
          ReversedEveryDir(node.Children[i],
                           ChildNamed(forward.Children, node.Children[i].Name))

\* C5 as claimed: with reverse, name sort puts the files before the
\* directories in every directory, the children being those of the sort
\* without reverse in the opposite order (lower-cased names differing).
C5_ReverseInvertsDirsFirst ==
    pc = "output" /\ sortType = SortByName /\ reverse /\ DistinctLowerNames(root)
        => ReversedEveryDir(root, sortFileTree(Built, SortByName, FALSE))

RECURSIVE ReversedWithinKind(_, _)
ReversedWithinKind(node, forward) ==
    /\ DirsFirst(node.Children)
    /\ NamesDescend(node.Children)
    /\ Names(SelectSeq(node.Children, IsDirNode))
          = Reversed(Names(SelectSeq(forward.Children, IsDirNode)))
    /\ Names(SelectSeq(node.Children, IsFileNode))
          = Reversed(Names(SelectSeq(forward.Children, IsFileNode)))
    /\ \A i \in 1..Len(node.Children) :
          ReversedWithinKind(node.Children[i],
                             ChildNamed(forward.Children, node.Children[i].Name))

\* C5, amended: with reverse, name sort still puts the directories before the
\* files in every directory; within the directories and within the files the
\* lower-cased names descend, which is the order without reverse turned round
\* (lower-cased names differing).
C5_ReverseKeepsDirsFirst ==
    pc = "output" /\ sortType = SortByName /\ reverse /\ DistinctLowerNames(root)
        => ReversedWithinKind(root, sortFileTree(Built, SortByName, FALSE))

\* B, a.txt/ and ~ listed in this order come out with reverse as a.txt/, ~, B
C5_Witness ==
    /\ pc = "output" /\ sortType = SortByName /\ reverse
    /\ Len(Built.Children) = 3
    /\ ~Built.Children[1].IsDir /\ Built.Children[2].IsDir /\ ~Built.Children[3].IsDir
    /\ root.Children = <<Built.Children[2], Built.Children[3], Built.Children[1]>>

RECURSIVE EveryDirDirsFirst(_)
EveryDirDirsFirst(node) ==
    /\ DirsFirst(node.Children)
    /\ \A i \in 1..Len(node.Children) : EveryDirDirsFirst(node.Children[i])

Marker(ancestorIsLast) == IF ancestorIsLast THEN "    " ELSE "|   "

RECURSIVE Markers(_)
Markers(lasts) ==
    IF lasts = <<>> THEN "" ELSE Marker(Head(lasts)) \o Markers(Tail(lasts))

\* a node's name, "/" for a directory, and its size in parentheses
Label(node) ==
    node.Name \o (IF node.IsDir THEN "/" ELSE "") \o " ("
        \o formatSize(FromInt(node.Size)) \o ")"

\* the lines of node's subtree, node having ancestors (root first) of which
\* lasts[i] tells whether the i-th is the last child of its parent
RECURSIVE LinesByAncestors(_, _, _)
LinesByAncestors(node, lasts, isLast) ==
    LET glyph == IF lasts = <<>> THEN ""
                 ELSE IF isLast THEN "+-- " ELSE "|-- "
        below == [i \in 1..Len(node.Children) |->
                    LinesByAncestors(node.Children[i], Append(lasts, isLast),
                                     i = Len(node.Children))]
        RECURSIVE Concat(_)
        Concat(k) == IF k = 0 THEN <<>> ELSE Concat(k - 1) \o below[k]
    IN  <<Markers(lasts) \o glyph \o Label(node)>> \o Concat(Len(node.Children))

\* C8: printFileTree(root, "", true) prints the root with neither prefix nor
\* connector, and every other node with one marker per ancestor from the root
\* down to its parent (four spaces below a last sibling, the root counting as
\* one, a bar and three spaces otherwise) and the connector of a last or a
\* non-last child, at every depth.
C8_PrefixFromAncestors ==
    pc = "exit" /\ exitCode = 0 => stdout = LinesByAncestors(root, <<>>, TRUE)

\* a printed tree whose first child B is a directory, not the last child, with
\* one file: the file's line, at depth 2, continues B's bar
C8_Witness ==
    /\ pc = "exit" /\ exitCode = 0
    /\ Len(stdout) = 4
    /\ stdout[1] = "r/ (3 B)"
    /\ stdout[2] = "    |-- B/ (1 B)"
    /\ stdout[3] = "    |   +-- a.txt (1 B)"
    /\ stdout[4] = "    +-- ~ (2 B)"

ValidSort == LowerFlag(sortBy) \in {"name", "size"}

\* a fatal error of the run: the target directory is missing or cannot be
\* stat'ed or listed, or the page was asked for and is not completely written
FatalError ==
    \/ ~Readable(fs)
    \/ htmlOutput # "" /\ htmlFile.state # "complete"

SavedLine == "HTML output saved to: " \o htmlOutput

\* C6: with a valid -sort, the exit code is 1 exactly when a fatal error
\* occurred, and the line "HTML output saved to" with exit code 0 comes only
\* with a completely written page.
C6_ExitCodeOneIffFatal ==
    pc = "exit" /\ ValidSort
        => /\ exitCode = 1 <=> FatalError
           /\ exitCode = 0 /\ stdout = <<SavedLine>> => htmlFile.state = "complete"

GoKey(sb) == IF sb = "size" THEN SortBySize ELSE SortByName

\* in every directory of the serialized tree the children's sort keys differ:
\* lower-cased names under name sort, sizes under size sort
RECURSIVE DistinctSortKeys(_, _)
DistinctSortKeys(data, sb) ==
    /\ \A i \in 1..Len(data.children), j \in 1..Len(data.children) :
          i # j => IF sb = "size"
                   THEN data.children[i].size # data.children[j].size
                   ELSE ToLower(NameBytes(data.children[i].name))
                            # ToLower(NameBytes(data.children[j].name))
    /\ \A i \in 1..Len(data.children) : DistinctSortKeys(data.children[i], sb)

\* C10: when the sort keys of siblings differ, the tree the page shows after
\* applySorting with key sb and order so is the tree sortFileTree produces with
\* the same key and reverse = (so is not ascending), at every level.
C10_ScriptSortsAsGo ==
    page.loaded /\ DistinctSortKeys(htmlFile.treeData, page.sortBy)
        => page.shown = convertToJSON(sortFileTree(root, GoKey(page.sortBy),
                                                   page.sortOrder # "asc"))

\* numbers too large for one integer, as eight limbs of base 1024, least
\* significant first
RECURSIVE Normalize(_, _, _)
Normalize(parts, i, c) ==
    IF i > 8 THEN <<>>
    ELSE LET v == (IF i <= Len(parts) THEN parts[i] ELSE 0) + c
         IN  IF i = 8 THEN <<v>>
             ELSE <<v % Limb>> \o Normalize(parts, i + 1, v \div Limb)

\* m * (the number limbs stands for)
TimesSmall(limbs, m) ==
    Normalize([i \in 1..Len(limbs) |-> m * limbs[i]], 1, 0)

\* v * 1024^k
ShiftedBy(v, k) ==
    Normalize([i \in 1..(k + 1) |-> IF i = k + 1 THEN v ELSE 0], 1, 0)

RECURSIVE LimbsLeqFrom(_, _, _)
LimbsLeqFrom(a, b, i) ==
    IF i = 0 THEN TRUE
    ELSE IF a[i] # b[i] THEN a[i] < b[i]
    ELSE LimbsLeqFrom(a, b, i - 1)

LimbsLeq(a, b) == LimbsLeqFrom(a, b, 8)

\* h / 100 is within d / 200 of size / 1024^k
HundredthsWithin(h, size, k, d) ==
    /\ LimbsLeq(ShiftedBy(2 * h - d, k), TimesSmall(size, 200))
    /\ LimbsLeq(TimesSmall(size, 200), ShiftedBy(2 * h + d, k))

\* the largest unit among KB = 1024 .. TB = 1024^4 that size reaches, 0 (B)
\* below 1024
UnitReached(size) ==
    IF \A i \in 2..5 : size[i] = 0 THEN 0
    ELSE CHOOSE k \in 1..4 :
            /\ \E i \in (k + 1)..5 : size[i] # 0
            /\ \A j \in (k + 1)..4 : \A i \in (j + 1)..5 : size[i] = 0

UnitName(k) == <<"KB", "MB", "GB", "TB">>[k]

\* result is size in the unit it reaches: the bytes as they are, or a number
\* of hundredths within d / 200 of the quotient, with two decimals
FormatsWithin(size, result, d) ==
    LET k == UnitReached(size)
        h == Hundredths(size, k)
    IN  IF k = 0 THEN result = DecStr(size[1]) \o " B"
        ELSE \E c \in {h - 1, h, h + 1} :
                /\ HundredthsWithin(c, size, k, d)
                /\ result = Sprintf2f(c, UnitName(k))

FormatExamples ==
    /\ fin = FromInt(0) => fout = "0 B"
    /\ fin = FromInt(1023) => fout = "1023 B"
    /\ fin = FromInt(1024) => fout = "1.00 KB"
    /\ fin = FromInt(1536) => fout = "1.50 KB"
    /\ fin = FromInt(1048576) => fout = "1.00 MB"

\* C9 as claimed: formatSize prints a size below 1024 as its bytes, and any
\* other size in the largest unit it reaches, as the quotient rounded to two
\* decimals.
C9_QuotientRounded ==
    pc = "formatted" => FormatExamples /\ FormatsWithin(fin, fout, 1)

\* C9, amended: so it is for sizes up to 2^53 bytes (8192 TB); beyond, where
\* float64(size) is no longer exact, the two decimals printed are within one
\* hundredth of the quotient.
C9_QuotientRoundedUpTo2Pow53 ==
    pc = "formatted"
        => /\ FormatExamples
           /\ fin[5] < 8192 => FormatsWithin(fin, fout, 1)
           /\ FormatsWithin(fin, fout, 2)

\* 1048575 bytes, one short of a MB, are printed in KB and rounded up
C9_Witness ==
    /\ pc = "formatted"
    /\ fin = <<1023, 1023, 0, 0, 0>>
    /\ fout = "1024.00 KB"

(***************************************************************************)
(* The page as first displayed.                                            *)
(***************************************************************************)
\* the step in which the page is displayed for the first time
FirstDisplay == ~page.loaded /\ page'.loaded

\* siblings have distinct sort keys and the script's sorter, given the policy
\* of the command line, leaves the serialized tree as it is (so neither ties
\* nor the collation of localeCompare play a part)
ScriptAgreesOnPolicy ==
    /\ DistinctSortKeys(htmlFile.treeData, LowerFlag(sortBy))
    /\ sortTreeData(htmlFile.treeData, LowerFlag(sortBy), ~reverse) = htmlFile.treeData

\* C11: when the page is first displayed, before any control is touched, it
\* shows every directory's children in the order in which the tree was
\* serialized into the page, which is the order of -sort and -reverse.
C11_FirstDisplayKeepsCommandLineOrder ==
    [][FirstDisplay /\ ScriptAgreesOnPolicy
           => page'.shown = htmlFile.treeData]_vars

(***************************************************************************)
(* The order of the printed lines.                                         *)
(***************************************************************************)
RECURSIVE NodeCount(_)
NodeCount(node) ==
    LET RECURSIVE Below(_)
        Below(k) == IF k = 0 THEN 0
                    ELSE Below(k - 1) + NodeCount(node.Children[k])
    IN  1 + Below(Len(node.Children))

\* the nodes of the subtrees of node's first k children
RECURSIVE NodesBefore(_, _)
NodesBefore(node, k) ==
    IF k = 0 THEN 0
    ELSE NodesBefore(node, k - 1) + NodeCount(node.Children[k])

\* the line of one node below ancestors of which lasts[i] tells whether the
\* i-th is a last child
OwnLine(node, lasts, isLast) ==
    Markers(lasts) \o (IF lasts = <<>> THEN "" ELSE IF isLast THEN "+-- " ELSE "|-- ")
        \o Label(node)

\* lines[at] is node's line and the NodeCount(node) - 1 lines after it are the
\* blocks of its children's subtrees, one after the other in the order of
\* node.Children
RECURSIVE PreOrderAt(_, _, _, _, _)
PreOrderAt(node, lasts, isLast, lines, at) ==
    /\ at <= Len(lines)
    /\ lines[at] = OwnLine(node, lasts, isLast)
    /\ \A i \in 1..Len(node.Children) :
          PreOrderAt(node.Children[i], Append(lasts, isLast),
                     i = Len(node.Children), lines,
                     at + 1 + NodesBefore(node, i - 1))

\* what was printed is one line per node, in pre-order
PrintedInPreOrder ==
    pc = "exit" /\ htmlOutput = ""
        => /\ Len(stdout) = NodeCount(root)
           /\ PreOrderAt(root, <<>>, TRUE, stdout, 1)

\* C12: printFileTree on a finite tree terminates (main, at its call, goes on
\* to exit with code 0) and has then printed exactly one line per node of the
\* tree, in depth-first pre-order: a node's line comes first in the contiguous
\* block of the lines of its subtree, and the blocks of siblings follow one
\* another in the order of the parent's children list.
C12_TerminatesOneLinePerNodePreOrder ==
    /\ []PrintedInPreOrder
    /\ (pc = "output" /\ htmlOutput = "") ~> (pc = "exit" /\ exitCode = 0)

\* two directories below the root, the first with one child: its child's line
\* comes between the lines of the two
C12_Witness ==
    /\ pc = "exit" /\ htmlOutput = ""
    /\ Len(root.Children) = 2
    /\ root.Children[1].IsDir /\ Len(root.Children[1].Children) = 1
    /\ root.Children[2].IsDir
    /\ Len(stdout) = 4

(***************************************************************************)
(* The serialized tree.                                                    *)
(***************************************************************************)
RECURSIVE RecordCount(_)
RecordCount(data) ==
    LET RECURSIVE Below(_)
        Below(k) == IF k = 0 THEN 0
                    ELSE Below(k - 1) + RecordCount(data.children[k])
    IN  1 + Below(Len(data.children))

\* data is the record of node, and its children are the records of node's
\* children, in the same order
RECURSIVE Serializes(_, _)
Serializes(node, data) ==
    /\ data.name = node.Name
    /\ data.size = node.Size
    /\ data.isDir = node.IsDir
    /\ data.path = node.Path
    /\ data.sizeStr = formatSize(FromInt(data.size))
    /\ Len(data.children) = Len(node.Children)
    /\ \A i \in 1..Len(node.Children) :
          Serializes(node.Children[i], data.children[i])

\* C13: the tree convertToJSON hands to the page has exactly one record per
\* node of the tree, with the node's name, size, isDir and path, with sizeStr
\* the formatSize of its size, and with the children's records in the order of
\* the node's children list, at every level.
C13_SerializesFullTree ==
    htmlFile.state = "complete"
        => /\ RecordCount(htmlFile.treeData) = NodeCount(root)
           /\ Serializes(root, htmlFile.treeData)

\* a written page whose tree has a directory with a child next to a larger
\* file that was sorted before it
C13_Witness ==
    /\ htmlFile.state = "complete"
    /\ Len(root.Children) = 2
    /\ ~root.Children[1].IsDir
    /\ root.Children[2].IsDir /\ Len(root.Children[2].Children) = 1
    /\ htmlFile.treeData.children[1].sizeStr = "2 B"
    /\ htmlFile.treeData.children[2].children[1].sizeStr = "1 B"

(***************************************************************************)
(* The less function as an ordering.                                       *)
(***************************************************************************)
\* less is irreflexive and asymmetric on the children of every directory of
\* the tree
RECURSIVE StrictOnSiblings(_, _, _)
StrictOnSiblings(node, st, rev) ==
    /\ \A i \in 1..Len(node.Children), j \in 1..Len(node.Children) :
          LET a == node.Children[i]
              b == node.Children[j]
          IN  /\ ~less(a, a, st, rev)
              /\ ~(less(a, b, st, rev) /\ less(b, a, st, rev))
    /\ \A i \in 1..Len(node.Children) : StrictOnSiblings(node.Children[i], st, rev)

\* C14: for the sort policy of the run, whatever the key and the direction,
\* the less function that sortFileTree gives to sort.Slice is a strict
\* ordering of the siblings of every directory: less(a, a) is false, and
\* less(a, b) and less(b, a) are never both true.
C14_LessIsStrict ==
    pc = "sort" => StrictOnSiblings(root, sortType, reverse)

(***************************************************************************)
(* What sortFileTree leaves alone.                                         *)
(***************************************************************************)
\* the places of after's children that hold the node of path p
PlacesOf(after, p) == {j \in 1..Len(after.Children) : after.Children[j].Path = p}

\* after is before with the children lists reordered: the same node, and each
\* child of before found at exactly one place among the children of after,
\* itself reordered at most
RECURSIVE Reordered(_, _)
Reordered(before, after) ==
    /\ after.Name = before.Name
    /\ after.Size = before.Size
    /\ after.IsDir = before.IsDir
    /\ after.Path = before.Path
    /\ Len(after.Children) = Len(before.Children)
    /\ \A i \in 1..Len(before.Children) :
          LET places == PlacesOf(after, before.Children[i].Path)
          IN  /\ Cardinality(places) = 1
              /\ \A j \in places : Reordered(before.Children[i], after.Children[j])

\* every directory's size is the sum of the sizes of its children
RECURSIVE DirSizesAreSums(_)
DirSizesAreSums(node) ==
    /\ node.IsDir => node.Size = SumOfSizes(node.Children)
    /\ \A i \in 1..Len(node.Children) : DirSizesAreSums(node.Children[i])

\* C15: sortFileTree only reorders children lists: after it, for every policy,
\* each node has the name, size, isDir and path it had, each node has the
\* children it had (none added, removed, duplicated or moved to another
\* parent), and a directory's size is still the sum of its children's sizes.
C15_SortOnlyReorders ==
    pc = "output" => Reordered(Built, root) /\ DirSizesAreSums(root)

\* a size sort that moved the last of three children to the front and the
\* first to the back
C15_Witness ==
    /\ pc = "output" /\ sortType = SortBySize
    /\ Len(Built.Children) = 3
    /\ Built.Children[1].Size < Built.Children[3].Size
    /\ root.Children[1] = Built.Children[3]
    /\ root.Children[3] = Built.Children[1]

====
